---------------------------- MODULE Spec2Model ----------------------------
(***************************************************************************)
(* Model of the QR code generator's vector pipeline:                       *)
(*   QRGenerator.generateSVG / createSVGString        (qrGenerator.js)     *)
(*   optimizeSVGRows and its helpers                  (svgRowOptimizer.js) *)
(*   optimizeSVG and its helpers                      (svgOptimizer.js)    *)
(*   generateLightweightSVG / createSVGWrapper        (svgPngHybrid.js)    *)
(*   QRCodeGeneratorApp.generateQRCode's policy       (app.js)             *)
(* and of the app around it: the requests of QRCodeGeneratorApp            *)
(* (generateQRCode, downloadSVG) and the size controls of the form         *)
(* (uiController.js).  Spec serves one call at a time; AppSpec runs the    *)
(* app's requests, which overlap at their 10 ms wait; LoaderSpec starts    *)
(* with the ZXing library loaded or not and adds checkZXingLibrary's poll  *)
(* and timeout.                                                            *)
(*                                                                         *)
(* A document is a record [width, height, elems]; elems is the sequence of *)
(* the elements in document order.  Numbers written into a document and    *)
(* read back with parseFloat are the same numbers (a JavaScript number     *)
(* survives String() followed by parseFloat()), so attributes are kept as  *)
(* integers.  A colour is the triple <<r, g, b>> that its "#rrggbb" string *)
(* parses to; the string 'transparent' is the empty tuple.                 *)
(***************************************************************************)
EXTENDS Integers, Sequences, FiniteSets, TLC

VARIABLES
    pc,          \* "idle" | "pending" (the hybrid task has not completed) |
                 \* "settled" (it has, its awaiter has not run yet) | "done"
    call,        \* the call being served: which entry point, with which options
    matrix,      \* the BitMatrix the encoder returned: [n, height, dark]
    basicSVG,    \* the unoptimized document handed to the optimizer
    blackRects,  \* the dark rectangles the optimizer collected from basicSVG
    mergedRects, \* Block-Merge: the rectangles emitted by findLargestBlocks
    pathData,    \* Path-Merge: Some(path commands), or Null when conversion failed
    svgResult,   \* what generateSVG returned: [async, value]
    strategy,    \* the branch that produced it: "hybrid" | "rowOptimize" |
                 \* "optimize" | "basic" ("none" before any call)
    currentSVG,  \* the document the caller has stored (app.currentSVG)
    storedTask,  \* the task currentSVG came from, as it was when currentSVG
                 \* was stored: "none" (no task) | "pending" | "fulfilled"
    sizeInput,   \* the value of the size field of the form
    timers,      \* the requests suspended in their 10 ms wait, oldest first
    requestData, \* the payload of the request that resumed last
    lastGeneratedData, \* app.lastGeneratedData
    currentCanvas,     \* app.currentCanvas
    attempts,    \* the encoder calls of the last generateBitMatrix
    failure,     \* the error the request that resumed last has caught
    reported,    \* the size shown to the user by updateQRInfo
    downloaded,  \* the task state of the last document downloadSVG emitted
    displayed,   \* the canvas in the display area (displayQRCode)
    loading,     \* the generate button shows its loading state
    errorMessage, \* the error message on show: "none" | "validation" |
                  \* "generation"
    zxingAvailable, \* typeof ZXing !== 'undefined': the library has loaded
    zxingLoaded,    \* QRGenerator.zxingLoaded
    checkInterval,  \* the poll of checkZXingLibrary: "none" | "set" | "cleared"
    loadTimeout     \* its 5 s timeout: "none" | "set" | "fired"

\* the state of the form and of the app's requests
requestVars == <<sizeInput, timers, requestData, lastGeneratedData, currentCanvas,
                 attempts, failure, reported, downloaded>>

\* what the user sees of a request
displayVars == <<displayed, loading, errorMessage>>

\* the detection of the encoder library
loaderVars == <<zxingAvailable, zxingLoaded, checkInterval, loadTimeout>>

vars == <<pc, call, matrix, basicSVG, blackRects, mergedRects, pathData,
          svgResult, strategy, currentSVG, storedTask, sizeInput, timers,
          requestData,
          lastGeneratedData, currentCanvas, attempts, failure, reported,
          downloaded, displayed, loading, errorMessage, zxingAvailable,
          zxingLoaded, checkInterval, loadTimeout>>

-----------------------------------------------------------------------------
(* Bounds of the model *)

\* direct generateSVG calls with rowOptimize: matrices of 1 x 1 .. MaxDim x
\* MaxDim modules
MaxDim == 3
\* app requests and the other direct calls: matrices of 1 x 1 .. MaxDimApp x
\* MaxDimApp modules
MaxDimApp == 2
\* externally supplied documents: a grid of ExtDim x ExtDim modules ...
ExtDim == 2
\* ... holding at most MaxExtRects rectangles
MaxExtRects == 2
\* at most MaxTimers requests of the app are suspended in their wait at a time
MaxTimers == 2
\* every permutation of a rectangle list of at most MaxPermuted rectangles is
\* tried; of a longer list, its rotations, adjacent swaps and sorted order
MaxPermuted == 4

-----------------------------------------------------------------------------
(* Values *)

\* an optional value (null or a value): the empty or the one-element sequence
Null == <<>>
Some(v) == <<v>>

Transparent == <<>>
Black == <<0, 0, 0>>
White == <<255, 255, 255>>
Red   == <<255, 0, 0>>
Dark33 == <<51, 51, 51>>

\* the colours a caller may pick for foregroundColor / backgroundColor
Palette == {Black, White, Red, Dark33}

NullDoc == [width |-> 0, height |-> 0, elems |-> <<>>]

Min(a, b) == IF a <= b THEN a ELSE b

\* Math.round(a / b) for a >= 0, b > 0: halves round up
Round(a, b) == (2 * a + b) \div (2 * b)

\* Utils.roundToNearest
roundToNearest(value, multiple) == Round(value, multiple) * multiple

RECURSIVE SeqMin(_)
SeqMin(s) == IF Len(s) = 1 THEN s[1] ELSE Min(s[1], SeqMin(Tail(s)))

-----------------------------------------------------------------------------
(* Colour classification *)

BlackMax == 51
BackgroundMin == 204

\* svgRowOptimizer.js / svgOptimizer.js isBlackColor: the listed blacks all
\* parse to <<0,0,0>>; a hex colour is black when r, g, b <= 51
isBlackColor(color) ==
    /\ Len(color) = 3
    /\ color[1] <= BlackMax /\ color[2] <= BlackMax /\ color[3] <= BlackMax

\* svgRowOptimizer.js isBackgroundColor: the listed whites, 'transparent',
\* or a hex colour with r, g, b >= 204
isBackgroundColor(color) ==
    \/ color = Transparent
    \/ /\ Len(color) = 3
       /\ color[1] >= BackgroundMin /\ color[2] >= BackgroundMin
       /\ color[3] >= BackgroundMin

-----------------------------------------------------------------------------
(* QRGenerator.createSVGString *)

RectElem(x, y, w, h, fill) ==
    [tag |-> "rect", x |-> x, y |-> y, width |-> w, height |-> h,
     fill |-> fill, pct |-> FALSE]

\* <rect width="100%" height="100%" fill=.../>
FullRectElem(fill) ==
    [tag |-> "rect", x |-> 0, y |-> 0, width |-> 100, height |-> 100,
     fill |-> fill, pct |-> TRUE]

\* the cells of a matrix n wide and height high in the order of the loops:
\* x outer, y inner
CellOrder(n, height) ==
    [k \in 1..(n * height) |-> <<(k - 1) \div height, (k - 1) % height>>]

createSVGString(bitMatrix, size, foregroundColor, backgroundColor) ==
    LET n == bitMatrix.n
        moduleSize == size \div n
        filled == SelectSeq(CellOrder(n, bitMatrix.height),
                            LAMBDA c : c \in bitMatrix.dark)
        modules == [k \in 1..Len(filled) |->
                      RectElem(filled[k][1] * moduleSize, filled[k][2] * moduleSize,
                               moduleSize, moduleSize, foregroundColor)]
        background == IF backgroundColor # Transparent
                      THEN <<RectElem(0, 0, size, size, backgroundColor)>>
                      ELSE <<>>
    IN [width |-> size, height |-> size, elems |-> background \o modules]

-----------------------------------------------------------------------------
(* svgRowOptimizer.js *)

\* querySelectorAll('rect')
RectsOf(doc) == SelectSeq(doc.elems, LAMBDA e : e.tag = "rect")

extractRectData(rect) ==
    [x |-> rect.x, y |-> rect.y, width |-> rect.width, height |-> rect.height,
     fill |-> rect.fill]

isRectValid(rectData, svgWidth, svgHeight) ==
    /\ rectData.width > 0
    /\ rectData.height > 0
    /\ rectData.x >= 0
    /\ rectData.y >= 0
    /\ rectData.x + rectData.width <= svgWidth
    /\ rectData.y + rectData.height <= svgHeight

\* the loop of extractAndMergeBlocks: the valid rectangles, classified
ExtractBlack(rects, svgWidth, svgHeight) ==
    LET data == [k \in 1..Len(rects) |-> extractRectData(rects[k])]
    IN SelectSeq(data, LAMBDA r : isRectValid(r, svgWidth, svgHeight)
                                  /\ isBlackColor(r.fill))

ExtractBackground(rects, svgWidth, svgHeight) ==
    LET data == [k \in 1..Len(rects) |-> extractRectData(rects[k])]
        bgs == SelectSeq(data, LAMBDA r : isRectValid(r, svgWidth, svgHeight)
                                          /\ ~isBlackColor(r.fill)
                                          /\ isBackgroundColor(r.fill))
    IN IF Len(bgs) = 0 THEN Null ELSE Some(bgs[1])

GridCell(gridX, gridY, rect) ==
    [gridX |-> gridX, gridY |-> gridY, x |-> rect.x, y |-> rect.y,
     width |-> rect.width, height |-> rect.height, fill |-> rect.fill,
     used |-> FALSE]

RECURSIVE GridInsert(_, _, _, _, _)
GridInsert(rectangles, grid, moduleSize, minX, minY) ==
    IF Len(rectangles) = 0 THEN grid
    ELSE LET rect == Head(rectangles)
             gridX == Round(rect.x - minX, moduleSize)
             gridY == Round(rect.y - minY, moduleSize)
             key == <<gridX, gridY>>
             cell == GridCell(gridX, gridY, rect)
         IN \* grid.set(key, cell): a later rectangle replaces an earlier one
            GridInsert(Tail(rectangles), (key :> cell) @@ grid, moduleSize,
                       minX, minY)

EmptyGrid == [k \in {} |-> GridCell(0, 0, [x |-> 0, y |-> 0, width |-> 0, height |-> 0, fill |-> Black])]

createGridFromRectangles(rectangles) ==
    IF Len(rectangles) = 0
    THEN [grid |-> EmptyGrid, moduleSize |-> 1, minX |-> 0, minY |-> 0]
    ELSE LET firstRect == rectangles[1]
             moduleSize == Min(firstRect.width, firstRect.height)
             minX == SeqMin([k \in 1..Len(rectangles) |-> rectangles[k].x])
             minY == SeqMin([k \in 1..Len(rectangles) |-> rectangles[k].y])
         IN [grid |-> GridInsert(rectangles, EmptyGrid, moduleSize, minX, minY),
             moduleSize |-> moduleSize, minX |-> minX, minY |-> minY]

Free(grid, key) == key \in DOMAIN grid /\ ~grid[key].used

\* the run never grows beyond its first cell
RunWidthOne(grid, x, y) == IF Free(grid, <<x, y>>) THEN 1 ELSE 0

\* the first loop of findLargestRectangleFrom: how far right the run goes
RECURSIVE RunWidth(_, _, _)
RunWidth(grid, x, y) ==
    IF Free(grid, <<x, y>>) THEN 1 + RunWidth(grid, x + 1, y) ELSE 0

\* the inner loop over one candidate row: the number of free cells met
\* before the first missing or used one, within the span of finalWidth
RECURSIVE RowScan(_, _, _, _)
RowScan(grid, x, y, toX) ==
    IF x >= toX THEN 0
    ELSE IF Free(grid, <<x, y>>) THEN 1 + RowScan(grid, x + 1, y, toX)
    ELSE 0

\* the loop over h: <<maxHeight, finalWidth>>
RECURSIVE GrowHeight(_, _, _, _, _, _)
RowScanned(grid, startX, startY, h, maxHeight, finalWidth, currentRowWidth) ==
    \* canExtendHeight: no cell of the span was missing or used
    IF currentRowWidth # finalWidth THEN <<maxHeight, finalWidth>>
    ELSE GrowHeight(grid, startX, startY, h + 1, h, Min(finalWidth, currentRowWidth))

\* the block never grows below its first row
GrowHeightOnce(grid, startX, startY, h, maxHeight, finalWidth) ==
    <<1, finalWidth>>

GrowHeight(grid, startX, startY, h, maxHeight, finalWidth) ==
    RowScanned(grid, startX, startY, h, maxHeight, finalWidth,
               RowScan(grid, startX, startY + h - 1, startX + finalWidth))

\* only the first row of the block is marked
MarkUsedFirstRow(grid, startX, startY, finalWidth, maxHeight) ==
    [k \in DOMAIN grid |->
        IF k[1] >= startX /\ k[1] < startX + finalWidth /\ k[2] = startY
        THEN [grid[k] EXCEPT !.used = TRUE]
        ELSE grid[k]]

MarkUsed(grid, startX, startY, finalWidth, maxHeight) ==
    [k \in DOMAIN grid |->
        IF /\ k[1] >= startX /\ k[1] < startX + finalWidth
           /\ k[2] >= startY /\ k[2] < startY + maxHeight
        THEN [grid[k] EXCEPT !.used = TRUE]
        ELSE grid[k]]

\* width and height of the block exchanged
MakeBlockSwapped(grid, startX, startY, moduleSize, minX, minY, maxHeight, finalWidth) ==
    IF maxHeight > 0 /\ finalWidth > 0
    THEN [block |-> Some([x |-> minX + startX * moduleSize,
                          y |-> minY + startY * moduleSize,
                          width |-> maxHeight * moduleSize,
                          height |-> finalWidth * moduleSize,
                          fill |-> grid[<<startX, startY>>].fill]),
          grid |-> MarkUsed(grid, startX, startY, finalWidth, maxHeight)]
    ELSE [block |-> Null, grid |-> grid]

\* the end of findLargestRectangleFrom, once maxHeight and finalWidth are
\* known: the cells are marked and the block is made
MakeBlock(grid, startX, startY, moduleSize, minX, minY, maxHeight, finalWidth) ==
    IF maxHeight > 0 /\ finalWidth > 0
    THEN [block |-> Some([x |-> minX + startX * moduleSize,
                          y |-> minY + startY * moduleSize,
                          width |-> finalWidth * moduleSize,
                          height |-> maxHeight * moduleSize,
                          fill |-> grid[<<startX, startY>>].fill]),
          grid |-> MarkUsed(grid, startX, startY, finalWidth, maxHeight)]
    ELSE [block |-> Null, grid |-> grid]

Grown(grid, startX, startY, moduleSize, minX, minY, grown) ==
    MakeBlock(grid, startX, startY, moduleSize, minX, minY, grown[1], grown[2])

\* [block, grid]: the block found (or Null) and the grid with its cells used
findLargestRectangleFrom(grid, startX, startY, moduleSize, minX, minY) ==
    IF ~Free(grid, <<startX, startY>>) THEN [block |-> Null, grid |-> grid]
    ELSE Grown(grid, startX, startY, moduleSize, minX, minY,
               GrowHeight(grid, startX, startY, 1, 0, RunWidth(grid, startX, startY)))

\* the positions compared by x first and then by y: column by column
SortKeysColumnMajor(S) ==
    IF S = {} THEN <<>>
    ELSE LET columns == 1 + CHOOSE m \in {k[1] : k \in S} : \A k \in S : k[1] <= m
             rows == 1 + CHOOSE m \in {k[2] : k \in S} : \A k \in S : k[2] <= m
         IN SelectSeq([i \in 1..(columns * rows) |->
                          <<(i - 1) \div rows, (i - 1) % rows>>],
                      LAMBDA k : k \in S)

\* the positions sorted with the comparator of findLargestBlocks, by y and
\* then by x: the keys are pairs of natural numbers, so sorting them is
\* taking them row by row, each row from the left
SortKeys(S) ==
    IF S = {} THEN <<>>
    ELSE LET columns == 1 + CHOOSE m \in {k[1] : k \in S} : \A k \in S : k[1] <= m
             rows == 1 + CHOOSE m \in {k[2] : k \in S} : \A k \in S : k[2] <= m
         IN SelectSeq([i \in 1..(columns * rows) |->
                          <<(i - 1) % columns, (i - 1) \div columns>>],
                      LAMBDA k : k \in S)

\* the loop of findLargestBlocks over the sorted positions
RECURSIVE BlockLoop(_, _, _, _, _, _)
BlockFound(positions, moduleSize, minX, minY, blocks, found) ==
    BlockLoop(Tail(positions), found.grid, moduleSize, minX, minY,
              IF found.block # Null THEN Append(blocks, found.block[1]) ELSE blocks)

BlockLoop(positions, grid, moduleSize, minX, minY, blocks) ==
    IF Len(positions) = 0 THEN blocks
    ELSE IF grid[Head(positions)].used
    THEN BlockLoop(Tail(positions), grid, moduleSize, minX, minY, blocks)
    ELSE BlockFound(positions, moduleSize, minX, minY, blocks,
             findLargestRectangleFrom(grid, grid[Head(positions)].gridX,
                 grid[Head(positions)].gridY, moduleSize, minX, minY))

\* the fallback of findLargestBlocks
BlocksOrOriginal(blocks, originalRects) ==
    IF Len(blocks) > 0 THEN blocks ELSE originalRects

findLargestBlocks(gridData, originalRects) ==
    BlocksOrOriginal(BlockLoop(SortKeys(DOMAIN gridData.grid), gridData.grid,
                               gridData.moduleSize, gridData.minX, gridData.minY,
                               <<>>),
                     originalRects)

mergeIntoBlocks(rectangles) ==
    IF Len(rectangles) = 0 THEN <<>>
    ELSE findLargestBlocks(createGridFromRectangles(rectangles), rectangles)

Extracted(black, backgroundRect) ==
    [blackRects |-> black,
     mergedRects |-> IF Len(black) = 0 THEN <<>> ELSE mergeIntoBlocks(black),
     backgroundRect |-> backgroundRect]

extractAndMergeBlocks(rects, svgWidth, svgHeight) ==
    Extracted(ExtractBlack(rects, svgWidth, svgHeight),
              ExtractBackground(rects, svgWidth, svgHeight))

createOptimizedRowSVG(originalSvg, merged, backgroundRect) ==
    LET background ==
            IF backgroundRect # Null
            THEN RectElem(backgroundRect[1].x, backgroundRect[1].y,
                          backgroundRect[1].width, backgroundRect[1].height,
                          backgroundRect[1].fill)
            ELSE FullRectElem(White)
        rectElems == [k \in 1..Len(merged) |->
                        RectElem(merged[k].x, merged[k].y, merged[k].width,
                                 merged[k].height, merged[k].fill)]
    IN [width |-> originalSvg.width, height |-> originalSvg.height,
        elems |-> <<background>> \o rectElems]

RowsOptimized(svg, r) ==
    [doc |-> createOptimizedRowSVG(svg, r.mergedRects, r.backgroundRect),
     blackRects |-> r.blackRects, mergedRects |-> r.mergedRects,
     raised |-> FALSE]

\* the string did not parse: the root of the parsed document is parsererror
ParseError(svg) == Len(svg.elems) > 0 /\ svg.elems[1].tag = "parsererror"

\* the error leaves optimizeSVGRows
RowsCaughtRethrown(svg) ==
    [doc |-> NullDoc, blackRects |-> <<>>, mergedRects |-> <<>>, raised |-> TRUE]

\* the catch block of optimizeSVGRows
RowsCaught(svg) ==
    [doc |-> svg, blackRects |-> <<>>, mergedRects |-> <<>>, raised |-> FALSE]

\* [doc, blackRects, mergedRects, raised]: the document returned, the values
\* of blackRects and mergedRects on the way, and whether an error has left
\* the function
optimizeSVGRows(svg) ==
    IF ParseError(svg) THEN RowsCaught(svg)
    ELSE IF Len(RectsOf(svg)) = 0
    THEN [doc |-> svg, blackRects |-> <<>>, mergedRects |-> <<>>,
          raised |-> FALSE]
    ELSE RowsOptimized(svg, extractAndMergeBlocks(RectsOf(svg), svg.width, svg.height))

-----------------------------------------------------------------------------
(* svgOptimizer.js *)

\* a comparator that looks at the row only
RectBeforeRowOnly(a, b) == a.y < b.y

\* the comparator of convertRectsToPath: by y, then by x
RectBefore(a, b) == IF a.y # b.y THEN a.y < b.y ELSE a.x < b.x

\* Array.prototype.sort is stable: r goes behind every element not after it
RECURSIVE InsertSorted(_, _)
InsertSorted(r, sorted) ==
    IF Len(sorted) = 0 THEN <<r>>
    ELSE IF RectBefore(r, Head(sorted)) THEN <<r>> \o sorted
    ELSE <<Head(sorted)>> \o InsertSorted(r, Tail(sorted))

RECURSIVE SortRects(_)
SortRects(rectangles) ==
    IF Len(rectangles) = 0 THEN <<>>
    ELSE InsertSorted(rectangles[Len(rectangles)],
                      SortRects(SubSeq(rectangles, 1, Len(rectangles) - 1)))

\* the rectangles convertRectsToPath keeps: dark, not empty, within the canvas
PathRects(rects, svgWidth, svgHeight) ==
    LET data == [k \in 1..Len(rects) |->
                   [x |-> rects[k].x, y |-> rects[k].y, width |-> rects[k].width,
                    height |-> rects[k].height, fill |-> rects[k].fill]]
        kept == SelectSeq(data, LAMBDA r :
                    /\ isBlackColor(r.fill) /\ r.width > 0 /\ r.height > 0
                    /\ r.x >= 0 /\ r.y >= 0
                    /\ r.x + r.width <= svgWidth /\ r.y + r.height <= svgHeight)
    IN [k \in 1..Len(kept) |->
          [x |-> kept[k].x, y |-> kept[k].y, width |-> kept[k].width,
           height |-> kept[k].height]]

\* the five commands of one rectangle
SubPath(rect) ==
    << <<"M", rect.x, rect.y>>, <<"h", rect.width>>, <<"v", rect.height>>,
       <<"h", 0 - rect.width>>, <<"z">> >>

RECURSIVE PathCommands(_)
PathCommands(rectangles) ==
    IF Len(rectangles) = 0 THEN <<>>
    ELSE SubPath(Head(rectangles)) \o PathCommands(Tail(rectangles))

\* the rectangles are taken in the order they were collected
PathOfUnsorted(rectangles) ==
    IF Len(rectangles) = 0 THEN Null
    ELSE Some(PathCommands(rectangles))

\* convertRectsToPath once the rectangles are collected
PathOf(rectangles) ==
    IF Len(rectangles) = 0 THEN Null
    ELSE Some(PathCommands(SortRects(rectangles)))

\* Null, or Some(the path commands)
convertRectsToPath(rects, svgWidth, svgHeight) ==
    PathOf(PathRects(rects, svgWidth, svgHeight))

PathElem(d) ==
    [tag |-> "path", d |-> d, fill |-> Black, fillRule |-> "evenodd"]

\* the selector rect[fill="#ffffff"], rect[fill="white"], rect[fill="#fff"]
createOptimizedSVG(originalSvg, d) ==
    LET whites == SelectSeq(RectsOf(originalSvg), LAMBDA e : e.fill = White)
        backgroundColor == IF Len(whites) > 0 THEN whites[1].fill ELSE White
    IN [width |-> originalSvg.width, height |-> originalSvg.height,
        elems |-> <<FullRectElem(backgroundColor), PathElem(d)>>]

PathOptimized(svg, d) ==
    [doc |-> IF d = Null THEN svg ELSE createOptimizedSVG(svg, d[1]),
     blackRects |-> PathRects(RectsOf(svg), svg.width, svg.height),
     pathData |-> d, raised |-> FALSE]

\* the catch block of optimizeSVG
PathCaught(svg) ==
    [doc |-> svg, blackRects |-> <<>>, pathData |-> Null, raised |-> FALSE]

\* [doc, blackRects, pathData, raised]: the document returned, the rectangles
\* convertRectsToPath collected, the path data it returned, and whether an
\* error has left the function
optimizeSVG(svg) ==
    IF ParseError(svg) THEN PathCaught(svg)
    ELSE IF Len(RectsOf(svg)) = 0
    THEN [doc |-> svg, blackRects |-> <<>>, pathData |-> Null, raised |-> FALSE]
    ELSE PathOptimized(svg, convertRectsToPath(RectsOf(svg), svg.width, svg.height))

-----------------------------------------------------------------------------
(* svgPngHybrid.js *)

PngResolution == 1024

\* generateHighResPNG: the data URL of the raster drawn from the matrix
generateHighResPNG(bitMatrix, size, transparent) ==
    [mimeType |-> IF transparent THEN "image/png" ELSE "image/jpeg",
     resolution |-> size, n |-> bitMatrix.n, dark |-> bitMatrix.dark]

ImageElem(size, href) ==
    [tag |-> "image", x |-> 0, y |-> 0, width |-> size, height |-> size,
     href |-> href]

createSVGWrapper(pngDataUrl, size, backgroundColor) ==
    [width |-> size, height |-> size,
     elems |-> (IF backgroundColor # Transparent
                THEN <<FullRectElem(backgroundColor)>> ELSE <<>>)
               \o <<ImageElem(size, pngDataUrl)>>]

\* the wrapper sized by the resolution of the raster
generateLightweightSVGAtResolution(bitMatrix, size, pngResolution, backgroundColor, transparent) ==
    createSVGWrapper(generateHighResPNG(bitMatrix, pngResolution, transparent),
                     pngResolution,
                     IF transparent THEN Transparent ELSE backgroundColor)

generateLightweightSVG(bitMatrix, size, pngResolution, backgroundColor, transparent) ==
    createSVGWrapper(generateHighResPNG(bitMatrix, pngResolution, transparent), size,
                     IF transparent THEN Transparent ELSE backgroundColor)

-----------------------------------------------------------------------------
(* QRGenerator.generateSVG *)

RowsResult(basic, rows) ==
    [async |-> FALSE, strategy |-> "rowOptimize", value |-> rows.doc,
     basic |-> basic,
     blackRects |-> rows.blackRects, mergedRects |-> rows.mergedRects,
     pathData |-> Null]

PathResult(basic, path) ==
    [async |-> FALSE, strategy |-> "optimize", value |-> path.doc,
     basic |-> basic,
     blackRects |-> path.blackRects, mergedRects |-> <<>>,
     pathData |-> path.pathData]

\* generateSVG from the basic document on
Optimized(options, basic) ==
    IF options.rowOptimize THEN RowsResult(basic, optimizeSVGRows(basic))
    ELSE IF options.optimize THEN PathResult(basic, optimizeSVG(basic))
    ELSE [async |-> FALSE, strategy |-> "basic", value |-> basic, basic |-> basic,
          blackRects |-> <<>>, mergedRects |-> <<>>, pathData |-> Null]

\* what one call computes: the value returned (a promise's value when async)
\* and the intermediate values of the strategy that ran
generateSVG(bitMatrix, options) ==
    IF options.hybrid
    THEN [async |-> TRUE, strategy |-> "hybrid",
          value |-> generateLightweightSVG(bitMatrix,
                        roundToNearest(options.size, 10), options.pngResolution,
                        options.backgroundColor, options.transparent),
          basic |-> NullDoc, blackRects |-> <<>>, mergedRects |-> <<>>,
          pathData |-> Null]
    ELSE Optimized(options,
             createSVGString(bitMatrix, roundToNearest(options.size, 10),
                 options.foregroundColor,
                 IF options.transparent THEN Transparent
                 ELSE options.backgroundColor))

-----------------------------------------------------------------------------
(* QRCodeGeneratorApp.generateQRCode: the choice of the strategy *)

HybridLength == 200
HybridSize == 500
RowLength == 50

\* the length threshold taken inclusively
shouldUseHybridInclusive(L, size) == L >= HybridLength \/ size > HybridSize

shouldUseHybrid(L, size) == L > HybridLength \/ size > HybridSize
shouldUseRowOptimize(L) == L > RowLength /\ L <= HybridLength
shouldUsePathOptimize(L) == L <= RowLength

\* options.hybrid, options.rowOptimize, options.optimize as generateQRCode sets them
StrategyFlags(L, size) ==
    [hybrid |-> shouldUseHybrid(L, size),
     rowOptimize |-> shouldUseRowOptimize(L) /\ ~shouldUseHybrid(L, size),
     optimize |-> /\ shouldUsePathOptimize(L) /\ ~shouldUseHybrid(L, size)
                  /\ ~shouldUseRowOptimize(L)]

-----------------------------------------------------------------------------
(* The calls *)

DefaultSize == 300

\* payload lengths and canvas sizes around the thresholds of the policy
Lengths == {RowLength, RowLength + 1, HybridLength, HybridLength + 1}
Sizes == {HybridSize, HybridSize + 10}

\* the square matrices: n is getWidth(), height is getHeight()
Matrices(maxDim) ==
    UNION {[n : {d}, height : {d}, dark : SUBSET ((0..(d - 1)) \X (0..(d - 1)))] :
              d \in 1..maxDim}

NoMatrix == [n |-> 0, height |-> 0, dark |-> {}]

Call(api, L, size, fg, bg, transparent, flags) ==
    [api |-> api, L |-> L, size |-> size, foregroundColor |-> fg,
     backgroundColor |-> bg, transparent |-> transparent, hybrid |-> flags.hybrid,
     rowOptimize |-> flags.rowOptimize, optimize |-> flags.optimize,
     pngResolution |-> PngResolution]

Flags(hybrid, rowOptimize, optimize) ==
    [hybrid |-> hybrid, rowOptimize |-> rowOptimize, optimize |-> optimize]

NoCall == Call("none", 0, 0, Black, White, FALSE, Flags(FALSE, FALSE, FALSE))

NoResult == [async |-> FALSE, value |-> NullDoc]

\* no payload: lastGeneratedData = null
NoData == [L |-> 0, enc |-> [hinted |-> Null, plain |-> Null]]

\* no canvas: currentCanvas = null
NoCanvas == [width |-> 0, height |-> 0, matrix |-> NoMatrix,
             foregroundColor |-> Black, backgroundColor |-> Transparent]

\* QRGenerator.checkZXingLibrary, run by the constructor: the library is
\* there, or a poll every 100 ms and a timeout of 5 s are set
checkZXingLibrary(available) ==
    IF available
    THEN [zxingLoaded |-> TRUE, checkInterval |-> "none", loadTimeout |-> "none"]
    ELSE [zxingLoaded |-> FALSE, checkInterval |-> "set", loadTimeout |-> "set"]

\* the state the constructors leave, the library being available or not
\* when they run
Constructed(available) ==
    /\ pc = "idle"
    /\ call = NoCall
    /\ matrix = NoMatrix
    /\ basicSVG = NullDoc
    /\ blackRects = <<>>
    /\ mergedRects = <<>>
    /\ pathData = Null
    /\ svgResult = NoResult
    /\ strategy = "none"
    /\ currentSVG = NullDoc
    /\ storedTask = "none"
    /\ sizeInput = DefaultSize
    /\ timers = <<>>
    /\ requestData = NoData
    /\ lastGeneratedData = NoData
    /\ currentCanvas = NoCanvas
    /\ attempts = <<>>
    /\ failure = "none"
    /\ reported = 0
    /\ downloaded = "nothing"
    /\ displayed = NoCanvas
    /\ loading = FALSE
    /\ errorMessage = "none"
    /\ zxingAvailable = available
    /\ zxingLoaded = checkZXingLibrary(available).zxingLoaded
    /\ checkInterval = checkZXingLibrary(available).checkInterval
    /\ loadTimeout = checkZXingLibrary(available).loadTimeout

\* the page whose scripts have loaded the library before the app starts
Init == Constructed(TRUE)

\* the page whose library may load late, or never
LoaderInit == \E available \in BOOLEAN : Constructed(available)

\* the state after generateSVG(m, c) has returned r to a caller that stores
\* the value at once when it is a document and awaits it when it is a promise
Returned(c, m, r) ==
    /\ call' = c
    /\ matrix' = m
    /\ basicSVG' = r.basic
    /\ blackRects' = r.blackRects
    /\ mergedRects' = r.mergedRects
    /\ pathData' = r.pathData
    /\ svgResult' = [async |-> r.async, value |-> r.value]
    /\ strategy' = r.strategy
    /\ currentSVG' = IF r.async THEN currentSVG ELSE r.value
    /\ storedTask' = IF r.async THEN storedTask ELSE "none"
    /\ pc' = IF r.async THEN "pending" ELSE "done"

\* generateCanvas never refuses
generateCanvasNeverRefuses(loaded) == FALSE

\* the first statement of generateCanvas: it throws 'ZXing library is not
\* loaded yet' unless zxingLoaded is set
generateCanvasRefuses(loaded) == ~loaded

\* the first statement of generateSVG, which throws the same error
generateSVGRefuses(loaded) == ~loaded

\* the caller has caught the 'not loaded' error; canvas is the canvas it
\* holds by then
Refused(c, canvas) ==
    /\ failure' = "notLoaded"
    /\ attempts' = <<>>
    /\ currentCanvas' = canvas
    /\ call' = c
    /\ matrix' = NoMatrix
    /\ basicSVG' = NullDoc
    /\ blackRects' = <<>>
    /\ mergedRects' = <<>>
    /\ pathData' = Null
    /\ svgResult' = NoResult
    /\ strategy' = "none"
    /\ pc' = "done"
    /\ UNCHANGED <<currentSVG, storedTask, reported>>

\* generateSVG(m, c) called outside a request of the app: refused, or
\* returned to the caller
Served(c, m) ==
    IF generateSVGRefuses(zxingLoaded)
    THEN /\ Refused(c, currentCanvas)
         /\ UNCHANGED <<sizeInput, timers, requestData, lastGeneratedData,
                        downloaded>>
    ELSE /\ \E r \in {generateSVG(m, c)} : Returned(c, m, r)
         /\ UNCHANGED requestVars

\* QRCodeGeneratorApp.generateQRCode, from the options of the form to the
\* call of generateSVG; the encoder returns a matrix whose width divides the
\* canvas (ZXing scales the modules by a whole number)
AppGenerateQRCode ==
    /\ pc = "idle"
    /\ \E L \in Lengths, size \in Sizes, fg \in Palette, bg \in Palette,
          transparent \in BOOLEAN, m \in Matrices(MaxDimApp) :
          /\ roundToNearest(size, 10) % m.n = 0
          /\ Served(Call("app", L, size, fg, bg, transparent,
                         StrategyFlags(L, size)), m)
    /\ UNCHANGED <<displayVars, loaderVars>>

\* the promise generateLightweightSVG returned is fulfilled
TaskSettles ==
    /\ pc = "pending"
    /\ pc' = "settled"
    /\ UNCHANGED <<call, matrix, basicSVG, blackRects, mergedRects, pathData,
                   svgResult, strategy, currentSVG, storedTask>>
    /\ UNCHANGED <<requestVars, displayVars, loaderVars>>

\* the awaiter runs whether the promise is fulfilled or not
CanResumeUnsettled(state) == state \in {"pending", "settled"}

\* await: the awaiter runs once the promise is fulfilled
CanResume(state) == state = "settled"

\* this.currentSVG = await svgResult, and the rest of generateQRCode
AwaitSVG ==
    /\ CanResume(pc)
    /\ currentSVG' = svgResult.value
    /\ storedTask' = IF pc = "settled" THEN "fulfilled" ELSE "pending"
    /\ reported' = IF call.api = "app" THEN call.size ELSE reported
    /\ displayed' = IF call.api = "app" THEN currentCanvas ELSE displayed
    /\ loading' = IF call.api = "app" THEN FALSE ELSE loading
    /\ UNCHANGED errorMessage
    /\ pc' = "done"
    /\ UNCHANGED <<call, matrix, basicSVG, blackRects, mergedRects, pathData,
                   svgResult, strategy>>
    /\ UNCHANGED <<sizeInput, timers, requestData, lastGeneratedData, currentCanvas,
                   attempts, failure, downloaded>>
    /\ UNCHANGED loaderVars

\* QRGenerator.generateSVG called with explicit flags and the default
\* colours and size, as generateSVGVersions calls it
CallGenerateSVG ==
    /\ pc = "idle"
    /\ \E flags \in {Flags(FALSE, TRUE, FALSE), Flags(FALSE, FALSE, TRUE),
                     Flags(FALSE, FALSE, FALSE)} :
       \E m \in Matrices(IF flags.rowOptimize THEN MaxDim ELSE MaxDimApp) :
          /\ DefaultSize % m.n = 0
          /\ Served(Call("generateSVG", 0, DefaultSize, Black, White, FALSE,
                         flags), m)
    /\ UNCHANGED <<displayVars, loaderVars>>

\* QRGenerator.generateHybridSVG: generateSVG called with hybrid set, the
\* default colours and size, and the resolution of the raster the caller asks
\* for
CallGenerateHybridSVG ==
    /\ pc = "idle"
    /\ \E pngResolution \in {PngResolution, 2 * PngResolution},
          m \in Matrices(MaxDimApp) :
          /\ DefaultSize % m.n = 0
          /\ Served([Call("generateHybridSVG", 0, DefaultSize, Black, White,
                          FALSE, Flags(TRUE, FALSE, FALSE))
                         EXCEPT !.pngResolution = pngResolution], m)
    /\ UNCHANGED <<displayVars, loaderVars>>

\* a document supplied from outside (an exported optimizer may be given any
\* document): a white background and up to MaxExtRects black squares of one
\* or two modules a side, put on a grid of ExtDim x ExtDim modules of 10
ExtSquares ==
    {RectElem(10 * x, 10 * y, 10 * s, 10 * s, Black) :
        x \in 0..(ExtDim - 1), y \in 0..(ExtDim - 1), s \in 1..2}

\* a string that is not a document
MalformedDoc == [width |-> 0, height |-> 0, elems |-> <<[tag |-> "parsererror"]>>]

ExtDocs ==
    {[width |-> 10 * ExtDim, height |-> 10 * ExtDim,
      elems |-> <<RectElem(0, 0, 10 * ExtDim, 10 * ExtDim, White)>> \o squares] :
        squares \in UNION {[1..k -> ExtSquares] : k \in 0..MaxExtRects}}
    \cup {MalformedDoc}

\* optimizeSVGRows(svgString) called on a supplied document
CallOptimizeSVGRows ==
    /\ pc = "idle"
    /\ \E doc \in ExtDocs :
          \E r \in {optimizeSVGRows(doc)} :
             /\ call' = Call("optimizeSVGRows", 0, doc.width, Black, White, FALSE,
                             Flags(FALSE, TRUE, FALSE))
             /\ basicSVG' = doc
             /\ blackRects' = r.blackRects
             /\ mergedRects' = r.mergedRects
             /\ pathData' = Null
             /\ svgResult' = [async |-> FALSE, value |-> r.doc]
             /\ strategy' = "rowOptimize"
             /\ currentSVG' = r.doc
             /\ failure' = IF r.raised THEN "optimizer" ELSE "none"
    /\ matrix' = NoMatrix
    /\ storedTask' = "none"
    /\ pc' = "done"
    /\ UNCHANGED <<sizeInput, timers, requestData, lastGeneratedData,
                   currentCanvas, attempts, reported, downloaded>>
    /\ UNCHANGED <<displayVars, loaderVars>>

\* optimizeSVG(svgString) called on a supplied document
CallOptimizeSVG ==
    /\ pc = "idle"
    /\ \E doc \in ExtDocs :
          \E r \in {optimizeSVG(doc)} :
             /\ call' = Call("optimizeSVG", 0, doc.width, Black, White, FALSE,
                             Flags(FALSE, FALSE, TRUE))
             /\ basicSVG' = doc
             /\ blackRects' = r.blackRects
             /\ mergedRects' = <<>>
             /\ pathData' = r.pathData
             /\ svgResult' = [async |-> FALSE, value |-> r.doc]
             /\ strategy' = "optimize"
             /\ currentSVG' = r.doc
             /\ failure' = IF r.raised THEN "optimizer" ELSE "none"
    /\ matrix' = NoMatrix
    /\ storedTask' = "none"
    /\ pc' = "done"
    /\ UNCHANGED <<sizeInput, timers, requestData, lastGeneratedData,
                   currentCanvas, attempts, reported, downloaded>>
    /\ UNCHANGED <<displayVars, loaderVars>>

\* the page is loaded anew: the state the constructor leaves
Reset ==
    /\ pc = "done"
    /\ pc' = "idle"
    /\ call' = NoCall
    /\ matrix' = NoMatrix
    /\ basicSVG' = NullDoc
    /\ blackRects' = <<>>
    /\ mergedRects' = <<>>
    /\ pathData' = Null
    /\ svgResult' = NoResult
    /\ strategy' = "none"
    /\ currentSVG' = NullDoc
    /\ storedTask' = "none"
    /\ sizeInput' = DefaultSize
    /\ timers' = <<>>
    /\ requestData' = NoData
    /\ lastGeneratedData' = NoData
    /\ currentCanvas' = NoCanvas
    /\ attempts' = <<>>
    /\ failure' = "none"
    /\ reported' = 0
    /\ downloaded' = "nothing"
    /\ displayed' = NoCanvas
    /\ loading' = FALSE
    /\ errorMessage' = "none"
    /\ zxingAvailable' = TRUE
    /\ zxingLoaded' = checkZXingLibrary(TRUE).zxingLoaded
    /\ checkInterval' = checkZXingLibrary(TRUE).checkInterval
    /\ loadTimeout' = checkZXingLibrary(TRUE).loadTimeout

-----------------------------------------------------------------------------
(* The app, request by request: a request runs from the click to its wait  *)
(* of 10 ms, and after the wait to its end; only the wait lets other events *)
(* in (the awaiter of the hybrid task runs before any other event)         *)

MinSize == 100
MaxSize == 800

\* Utils.clamp
clamp(value, min, max) == Min(IF value >= min THEN value ELSE min, max)

\* the size field keeps what is typed, clamped only
sizeInputValueClamped(typed) == clamp(typed, MinSize, MaxSize)

\* the 'input' handler of the size field: the value it writes back
sizeInputValue(typed) == roundToNearest(clamp(typed, MinSize, MaxSize), 10)

\* what may be typed into the size field: values around HybridSize that are
\* not multiples of 10
TypedSizes == {HybridSize + 4, HybridSize + 5}

\* what the encoder does with a payload, with hints and without: Null when
\* the call throws, the matrix it returns otherwise. The encoder is a library
\* the generator is handed (the global ZXing); nothing in the generator
\* restricts the matrix it returns, which may be wider than it is high
DarkModule == [n |-> 1, height |-> 1, dark |-> {<<0, 0>>}]
LightModule == [n |-> 1, height |-> 1, dark |-> {}]
WideMatrix == [n |-> 2, height |-> 1, dark |-> {<<0, 0>>}]
Encodings ==
    {[hinted |-> Some(DarkModule), plain |-> Some(LightModule)],
     [hinted |-> Some(WideMatrix), plain |-> Some(WideMatrix)],
     [hinted |-> Some(DarkModule), plain |-> Null],
     [hinted |-> Null, plain |-> Some(LightModule)],
     [hinted |-> Null, plain |-> Null]}

\* the payloads of the requests: a length and what the encoder makes of it
RequestLengths == {RowLength, HybridLength + 1}
Payloads == [L : RequestLengths, enc : Encodings]

\* the call with hints is the only one
generateBitMatrixNoFallback(enc) ==
    [attempts |-> <<[hints |-> TRUE, ok |-> enc.hinted # Null]>>,
     matrix |-> enc.hinted]

\* QRGenerator.generateBitMatrix: the encoder calls made, and Null (the
\* second call has thrown) or the matrix returned
generateBitMatrix(enc) ==
    IF enc.hinted # Null
    THEN [attempts |-> <<[hints |-> TRUE, ok |-> TRUE]>>, matrix |-> enc.hinted]
    ELSE [attempts |-> <<[hints |-> TRUE, ok |-> FALSE],
                         [hints |-> FALSE, ok |-> enc.plain # Null]>>,
          matrix |-> enc.plain]

\* QRGenerator.generateCanvas once the matrix is there
generateCanvas(bitMatrix, options) ==
    [width |-> roundToNearest(options.size, 10),
     height |-> roundToNearest(options.size, 10),
     matrix |-> bitMatrix,
     foregroundColor |-> options.foregroundColor,
     backgroundColor |-> IF options.transparent THEN Transparent
                         ELSE options.backgroundColor]

\* no event handler runs while the awaiter of a hybrid task is due
EventLoopFree == pc \in {"idle", "done"}

\* the variables of the call being served and of the stored document
pipelineVars == <<pc, call, matrix, basicSVG, blackRects, mergedRects, pathData,
                  svgResult, strategy, currentSVG, storedTask>>

\* what the inputs of the form hold when a request reads them: a payload
\* that passes DataProcessor.validateData, or something that does not
Inputs ==
    {[valid |-> TRUE, data |-> d] : d \in Payloads}
        \cup {[valid |-> FALSE, data |-> NoData]}

\* the payload is stored before it is validated
StoredPayloadUnvalidated(input, last) == input.data

\* lastGeneratedData after the first statements of generateQRCode: the
\* payload when validation passes, what it was when the request returns early
StoredPayload(input, last) == IF input.valid THEN input.data ELSE last

\* generateQRCode up to its wait: the errors are cleared, the inputs are
\* read and validated; the payload is stored, the loading state is shown and
\* the request suspends itself, or the validation error is shown and the
\* request returns through its finally block, which hides the loading state
StartRequest ==
    /\ \E input \in Inputs :
          /\ input.valid => Len(timers) < MaxTimers
          /\ lastGeneratedData' = StoredPayload(input, lastGeneratedData)
          /\ timers' = IF input.valid THEN Append(timers, [data |-> input.data])
                       ELSE timers
          /\ loading' = input.valid
          /\ errorMessage' = IF input.valid THEN "none" ELSE "validation"
    /\ UNCHANGED <<pipelineVars, sizeInput, requestData, currentCanvas, attempts,
                   failure, reported, downloaded, displayed>>
    /\ UNCHANGED loaderVars

\* the click on the generate button
ClickGenerate ==
    /\ EventLoopFree
    /\ StartRequest

\* the handler regenerates whatever lastGeneratedData holds
AutoRegeneratesAlways(last) == TRUE

\* if (this.lastGeneratedData)
AutoRegenerates(last) == last # NoData

\* the 'change' event of a customization control: the code is generated anew
\* once a payload has been stored
CustomizationChange ==
    /\ EventLoopFree
    /\ AutoRegenerates(lastGeneratedData)
    /\ StartRequest

\* the payload the rest of the request works on is lastGeneratedData
RequestDataShared(own, shared) == shared

\* the payload the rest of the request works on: its own const data
RequestData(own, shared) == own

\* the request has caught the error of the encoder
EncoderFailed(c, bm) ==
    /\ failure' = "encoder"
    /\ attempts' = bm.attempts
    /\ call' = c
    /\ matrix' = NoMatrix
    /\ basicSVG' = NullDoc
    /\ blackRects' = <<>>
    /\ mergedRects' = <<>>
    /\ pathData' = Null
    /\ svgResult' = NoResult
    /\ strategy' = "none"
    /\ pc' = "done"
    /\ UNCHANGED <<currentSVG, storedTask, currentCanvas, reported>>

\* the canvas is stored, generateSVG is called and its result stored or
\* awaited
Generated(c, bm, r) ==
    /\ failure' = "none"
    /\ attempts' = bm.attempts
    /\ currentCanvas' = generateCanvas(bm.matrix[1], c)
    /\ Returned(c, bm.matrix[1], r)
    /\ reported' = IF r.async THEN reported ELSE c.size

\* the timer set last fires first
FireNewest(queue) ==
    [timer |-> queue[Len(queue)], rest |-> SubSeq(queue, 1, Len(queue) - 1)]

\* timers of the same delay fire in the order they were set
Fire(queue) == [timer |-> Head(queue), rest |-> Tail(queue)]

\* generateQRCode after its wait: the oldest timer fires first. The request
\* ends here, in displayQRCode or in its catch block and then in hideLoading,
\* unless it awaits the hybrid task
ResumeGenerate ==
    /\ EventLoopFree
    /\ Len(timers) > 0
    /\ \E d \in {RequestData(Fire(timers).timer.data, lastGeneratedData)} :
          \E c \in {Call("app", d.L, sizeInput, Black, White, FALSE,
                          StrategyFlags(d.L, sizeInput))} :
             IF generateCanvasRefuses(zxingLoaded)
             THEN Refused(c, currentCanvas)
             ELSE \E bm \in {generateBitMatrix(d.enc)} :
                     IF bm.matrix = Null
                     THEN EncoderFailed(c, bm)
                     ELSE IF generateSVGRefuses(zxingLoaded)
                     THEN Refused(c, generateCanvas(bm.matrix[1], c))
                     ELSE \E r \in {generateSVG(bm.matrix[1], c)} :
                             Generated(c, bm, r)
    /\ requestData' = Fire(timers).timer.data
    /\ timers' = Fire(timers).rest
    /\ displayed' = IF pc' = "done" /\ failure' = "none" THEN currentCanvas'
                    ELSE displayed
    /\ loading' = IF pc' = "done" THEN FALSE ELSE loading
    /\ errorMessage' = IF failure' = "none" THEN errorMessage ELSE "generation"
    /\ UNCHANGED <<sizeInput, lastGeneratedData, downloaded>>
    /\ UNCHANGED loaderVars

\* the 'input' event of the size field
SizeInputEvent ==
    /\ EventLoopFree
    /\ \E typed \in TypedSizes : sizeInput' = sizeInputValue(typed)
    /\ UNCHANGED <<pipelineVars, timers, requestData, lastGeneratedData,
                   currentCanvas, attempts, failure, reported, downloaded>>
    /\ UNCHANGED <<displayVars, loaderVars>>

\* the 'input' event of the size slider: the rounded value goes into the
\* slider and into the size field
SizeSliderEvent ==
    /\ EventLoopFree
    /\ \E value \in TypedSizes : sizeInput' = roundToNearest(value, 10)
    /\ UNCHANGED <<pipelineVars, timers, requestData, lastGeneratedData,
                   currentCanvas, attempts, failure, reported, downloaded>>
    /\ UNCHANGED <<displayVars, loaderVars>>

\* QRCodeGeneratorApp.downloadSVG
DownloadSVG ==
    /\ EventLoopFree
    /\ currentSVG # NullDoc
    /\ downloaded' = storedTask
    /\ UNCHANGED <<pipelineVars, sizeInput, timers, requestData,
                   lastGeneratedData, currentCanvas, attempts, failure, reported>>
    /\ UNCHANGED <<displayVars, loaderVars>>

AppNext ==
    \/ ClickGenerate
    \/ CustomizationChange
    \/ ResumeGenerate
    \/ TaskSettles
    \/ AwaitSVG
    \/ SizeInputEvent
    \/ SizeSliderEvent
    \/ DownloadSVG

AppSpec == Init /\ [][AppNext]_vars

-----------------------------------------------------------------------------
(* The detection of the encoder library: the page loads the library late or *)
(* never, while the app serves its requests.  The ticks of the poll that    *)
(* find no library, and the timeout that fires once zxingLoaded is set,     *)
(* leave the state as it is                                                 *)

\* the script of the library has run: ZXing is defined from now on
LibraryLoads ==
    /\ EventLoopFree
    /\ ~zxingAvailable
    /\ zxingAvailable' = TRUE
    /\ UNCHANGED <<zxingLoaded, checkInterval, loadTimeout>>
    /\ UNCHANGED <<pipelineVars, requestVars, displayVars>>

\* a tick of the poll that finds the library: the flag is set and the poll
\* cleared
PollTick ==
    /\ EventLoopFree
    /\ checkInterval = "set"
    /\ zxingAvailable
    /\ zxingLoaded' = TRUE
    /\ checkInterval' = "cleared"
    /\ UNCHANGED <<zxingAvailable, loadTimeout>>
    /\ UNCHANGED <<pipelineVars, requestVars, displayVars>>

\* the timeout leaves the poll running
IntervalKeptAfterTimeout(interval) == interval

\* clearInterval(checkInterval) in the timeout
IntervalAfterTimeout(interval) == "cleared"

\* the timeout of 5 s fires before the library was found: the poll is
\* cleared and an error is thrown that nothing catches
LoadTimeout ==
    /\ EventLoopFree
    /\ loadTimeout = "set"
    /\ ~zxingLoaded
    /\ loadTimeout' = "fired"
    /\ checkInterval' = IntervalAfterTimeout(checkInterval)
    /\ UNCHANGED <<zxingAvailable, zxingLoaded>>
    /\ UNCHANGED <<pipelineVars, requestVars, displayVars>>

LoaderNext ==
    \/ LibraryLoads
    \/ PollTick
    \/ LoadTimeout
    \/ ClickGenerate
    \/ ResumeGenerate
    \/ CallGenerateHybridSVG
    \/ TaskSettles
    \/ AwaitSVG

LoaderSpec == LoaderInit /\ [][LoaderNext]_vars

Next ==
    \/ AppGenerateQRCode
    \/ TaskSettles
    \/ AwaitSVG
    \/ CallGenerateSVG
    \/ CallGenerateHybridSVG
    \/ CallOptimizeSVGRows
    \/ CallOptimizeSVG
    \/ Reset

Spec == Init /\ [][Next]_vars

-----------------------------------------------------------------------------
(* Rendering: which modules of the canvas a document paints *)

\* the canvas of the call being served: GridN x GridN modules of ModuleSide
GridN == IF matrix = NoMatrix THEN ExtDim ELSE matrix.n
ModuleSide == roundToNearest(call.size, 10) \div GridN
Cells == (0..(GridN - 1)) \X (0..(GridN - 1))

Max(a, b) == IF a >= b THEN a ELSE b

\* the columns (or rows) 0..(n - 1), each side pixels wide, of which the
\* pixels from..(to - 1) hold at least one pixel, and those of which they
\* hold every pixel
Partly(from, to, side, n) ==
    Max(0, from \div side)..Min(n - 1, (to - 1) \div side)
Wholly(from, to, side, n) ==
    Max(0, (from + side - 1) \div side)..Min(n - 1, (to \div side) - 1)

\* the cells a rectangle paints in part, and those it paints in full
Touched(r) ==
    LET side == ModuleSide
        n == GridN
    IN Partly(r.x, r.x + r.width, side, n) \X Partly(r.y, r.y + r.height, side, n)

Filled(r) ==
    LET side == ModuleSide
        n == GridN
    IN Wholly(r.x, r.x + r.width, side, n) \X Wholly(r.y, r.y + r.height, side, n)

TouchedBy(rects) == UNION {Touched(rects[k]) : k \in DOMAIN rects}

\* the number of cells the rectangles touch, a cell counted once for each
\* rectangle that touches it
RECURSIVE TouchCount(_)
TouchCount(rects) ==
    IF Len(rects) = 0 THEN 0
    ELSE Cardinality(Touched(Head(rects))) + TouchCount(Tail(rects))
FilledBy(rects) == UNION {Filled(rects[k]) : k \in DOMAIN rects}

\* the line segments a path draws: "M" moves the pen, "h" and "v" draw from
\* it, "z" draws back to the start of the sub-path
RECURSIVE PathEdges(_, _, _)
PathEdges(d, pen, start) ==
    IF Len(d) = 0 THEN <<>>
    ELSE LET c == Head(d)
             to == CASE c[1] = "M" -> <<c[2], c[3]>>
                     [] c[1] = "h" -> <<pen[1] + c[2], pen[2]>>
                     [] c[1] = "v" -> <<pen[1], pen[2] + c[2]>>
                     [] OTHER -> start
         IN (IF c[1] = "M" THEN <<>> ELSE << <<pen, to>> >>)
            \o PathEdges(Tail(d), to, IF c[1] = "M" THEN to ELSE start)

\* the segments a ray from the centre of cell c towards +x crosses
\* (coordinates doubled, so that the centre is a whole number)
Crossed(c, edges) ==
    {k \in DOMAIN edges :
        LET from == edges[k][1]
            to == edges[k][2]
            py == (2 * c[2] + 1) * ModuleSide
        IN /\ from[1] = to[1]
           /\ 2 * from[1] > (2 * c[1] + 1) * ModuleSide
           /\ \/ 2 * from[2] < py /\ py < 2 * to[2]
              \/ 2 * to[2] < py /\ py < 2 * from[2]}

\* fill-rule="evenodd": a point is inside when the ray crosses an odd number
\* of segments
EvenOdd(d) ==
    {c \in Cells : Cardinality(Crossed(c, PathEdges(d, <<0, 0>>, <<0, 0>>))) % 2 = 1}

\* the rectangles of a RectangleSet: squares of one side, on distinct cells
\* of one grid
RectangleSet(rects) ==
    /\ \A k \in DOMAIN rects :
          /\ rects[k].width = rects[1].width
          /\ rects[k].height = rects[1].width
          /\ (rects[k].x - rects[1].x) % rects[1].width = 0
          /\ (rects[k].y - rects[1].y) % rects[1].width = 0
    /\ Cardinality({<<rects[k].x, rects[k].y>> : k \in DOMAIN rects}) = Len(rects)

\* a document starts with its background when its first element is a
\* rectangle, except a document createSVGString made with a transparent
\* background, which starts with the first module
HasBackground(doc) ==
    /\ Len(doc.elems) > 0
    /\ doc.elems[1].tag = "rect"
    /\ ~(doc = basicSVG /\ call.transparent)

Geometry(doc) ==
    IF HasBackground(doc) THEN SubSeq(doc.elems, 2, Len(doc.elems)) ELSE doc.elems

\* the cells one element of the geometry paints
Painted(e) ==
    CASE e.tag = "rect" -> IF e.pct THEN Cells ELSE Filled(e)
      [] e.tag = "path" -> EvenOdd(e.d)
      [] OTHER -> e.href.dark

Foreground(doc) == UNION {Painted(Geometry(doc)[k]) : k \in DOMAIN Geometry(doc)}

-----------------------------------------------------------------------------
(* Claims *)

\* C1: Block-Merge coverage. Whenever optimizeSVGRows has collected dark
\* rectangles that are uniform squares on distinct grid cells, the rectangles
\* findLargestBlocks emits are pairwise non-overlapping (no cell is touched
\* by two of them) and their union is exactly the set of the input cells:
\* none lost, no other cell touched.
C1_BlockMergeCoverage ==
    (pc = "done" /\ strategy = "rowOptimize" /\ RectangleSet(blackRects)) =>
        LET cells == FilledBy(blackRects)
            touched == TouchedBy(mergedRects)
        IN /\ TouchCount(mergedRects) = Cardinality(touched)
           /\ FilledBy(mergedRects) = cells
           /\ touched = cells

\* a set of at least four cells that Block-Merge has tiled with fewer, but
\* more than one, rectangles
C1_Witness ==
    /\ pc = "done" /\ strategy = "rowOptimize" /\ RectangleSet(blackRects)
    /\ Len(blackRects) >= 4
    /\ Len(mergedRects) >= 2
    /\ Len(mergedRects) < Len(blackRects)

\* C2: Path-Merge coverage. Whenever optimizeSVG has emitted a path, the
\* cells the path paints under the even-odd rule are exactly the cells the
\* collected rectangles paint, overlapping rectangles included.
C2_PathMergeCoverage ==
    (pc = "done" /\ strategy = "optimize" /\ pathData # Null) =>
        EvenOdd(pathData[1]) = FilledBy(blackRects)

\* C3: coverage for every colour pair. After a call that ran Block-Merge or
\* Path-Merge on the document of a matrix, the returned document paints as
\* foreground exactly the dark modules of the matrix, whatever the
\* foreground and background colours are.
C3_ColourCoverage ==
    (/\ pc = "done"
     /\ strategy \in {"rowOptimize", "optimize"}
     /\ matrix # NoMatrix) =>
        Foreground(currentSVG) = matrix.dark

-----------------------------------------------------------------------------
(* Row-Merge, as section 4.3 of the specification describes it: within a    *)
(* row (equal y and height), from left to right, a rectangle whose left     *)
(* edge touches the running rectangle's right edge extends it; any other    *)
(* flushes it and starts a new one.                                         *)

RECURSIVE Coalesce(_, _, _)
Coalesce(sorted, running, out) ==
    IF Len(sorted) = 0 THEN Append(out, running)
    ELSE IF /\ Head(sorted).y = running.y
            /\ Head(sorted).height = running.height
            /\ Head(sorted).x = running.x + running.width
    THEN Coalesce(Tail(sorted),
                  [running EXCEPT !.width = @ + Head(sorted).width], out)
    ELSE Coalesce(Tail(sorted), Head(sorted), Append(out, running))

mergeRows(rects) ==
    IF Len(rects) = 0 THEN <<>>
    ELSE LET sorted == SortRects(rects)
         IN Coalesce(Tail(sorted), Head(sorted), <<>>)

Range(s) == {s[k] : k \in DOMAIN s}

\* two rectangles of the set, one right below the other
VerticalNeighbours(rects) ==
    \E k \in DOMAIN rects :
        <<rects[k].x, rects[k].y + rects[k].height>>
            \in {<<rects[j].x, rects[j].y>> : j \in DOMAIN rects}

SetMin(S) == CHOOSE m \in S : \A v \in S : m <= v
SetMax(S) == CHOOSE m \in S : \A v \in S : m >= v

\* the bounding box of a non-empty RectangleSet, in modules and in pixels
Box(rects) ==
    LET xs == {rects[k].x : k \in DOMAIN rects}
        ys == {rects[k].y : k \in DOMAIN rects}
        side == rects[1].width
    IN [x |-> SetMin(xs), y |-> SetMin(ys),
        W |-> (SetMax(xs) - SetMin(xs)) \div side + 1,
        H |-> (SetMax(ys) - SetMin(ys)) \div side + 1,
        side |-> side]

\* the dark cells form exactly one fully dark W x H rectangle of modules
Solid(rects) ==
    /\ Len(rects) > 0
    /\ RectangleSet(rects)
    /\ LET box == Box(rects) IN Len(rects) = box.W * box.H

C5_ExactlyOnePath ==
    (pc = "done" /\ strategy = "optimize") =>
        Len(SelectSeq(currentSVG.elems, LAMBDA e : e.tag = "path")) = 1

\* C6: boundary. For every strategy a blank matrix yields a document with
\* the background only: no rectangle and no path besides it.
C6_BlankMatrix ==
    (pc = "done" /\ matrix # NoMatrix /\ matrix.dark = {}) =>
        Len(SelectSeq(Geometry(currentSVG),
                      LAMBDA e : e.tag \in {"rect", "path"})) = 0

\* the rectangles of a document that cover the whole canvas
FullCanvas(doc) ==
    SelectSeq(doc.elems, LAMBDA e :
        /\ e.tag = "rect"
        /\ \/ e.pct /\ e.width = 100 /\ e.height = 100
           \/ /\ ~e.pct /\ e.x = 0 /\ e.y = 0
              /\ e.width = doc.width /\ e.height = doc.height)

\* C7: transparent background. For a matrix with at least one light module
\* (so that no module and no block covers the canvas), the document has no
\* full-canvas rectangle when transparent = true, and exactly one, in the
\* requested background colour, when transparent = false.
C7_TransparentBackground ==
    (pc = "done" /\ matrix # NoMatrix /\ matrix.dark # Cells) =>
        IF call.transparent
        THEN Len(FullCanvas(currentSVG)) = 0
        ELSE /\ Len(FullCanvas(currentSVG)) = 1
             /\ FullCanvas(currentSVG)[1].fill = call.backgroundColor

\* C8: strategy selection. For every request of the app exactly one strategy
\* runs: Raster-Embed (hybrid) if and only if L > 200 or size > 500;
\* otherwise the rowOptimize strategy if and only if 50 < L <= 200;
\* otherwise Path-Merge (optimize).
C8_StrategySelection ==
    (pc # "idle" /\ call.api = "app") =>
        /\ strategy \in {"hybrid", "rowOptimize", "optimize"}
        /\ strategy = "hybrid" <=> (call.L > 200 \/ call.size > 500)
        /\ strategy = "rowOptimize" <=>
              (~(call.L > 200 \/ call.size > 500) /\ 50 < call.L /\ call.L <= 200)
        /\ strategy = "optimize" <=>
              (~(call.L > 200 \/ call.size > 500) /\ ~(50 < call.L /\ call.L <= 200))
        /\ call.hybrid <=> strategy = "hybrid"
        /\ call.rowOptimize <=> strategy = "rowOptimize"
        /\ call.optimize <=> strategy = "optimize"
        /\ svgResult.async <=> strategy = "hybrid"

\* a request at both thresholds (L = 200, size = 500) served by rowOptimize
C8_Witness ==
    /\ pc = "done" /\ call.api = "app"
    /\ call.L = HybridLength /\ call.size = HybridSize
    /\ strategy = "rowOptimize"

C10_SolidRectangle ==
    (pc = "done" /\ strategy = "rowOptimize" /\ Solid(blackRects)) =>
        LET box == Box(blackRects)
        IN /\ Len(mergedRects) = 1
           /\ mergedRects[1].x = box.x
           /\ mergedRects[1].y = box.y
           /\ mergedRects[1].width = box.W * box.side
           /\ mergedRects[1].height = box.H * box.side

\* a solid region of six modules, wider or higher than it is high or wide,
\* that Block-Merge has made one rectangle
C10_Witness ==
    /\ pc = "done" /\ strategy = "rowOptimize" /\ Solid(blackRects)
    /\ Len(blackRects) = 6
    /\ Len(mergedRects) = 1

-----------------------------------------------------------------------------
(* Order of the output *)

Reverse(s) == [k \in 1..Len(s) |-> s[Len(s) + 1 - k]]

\* the position p lies within the block b
Inside(p, b) ==
    /\ b.x <= p[1] /\ p[1] < b.x + b.width
    /\ b.y <= p[2] /\ p[2] < b.y + b.height

\* the positions of the rectangles that none of the first k blocks covers
Unused(rects, blocks, k) ==
    {p \in {<<rects[i].x, rects[i].y>> : i \in DOMAIN rects} :
        \A j \in 1..k : ~Inside(p, blocks[j])}

\* the top-most and, in its row, left-most position of a non-empty set
TopLeft(S) ==
    CHOOSE p \in S : \A q \in S : p[2] < q[2] \/ (p[2] = q[2] /\ p[1] <= q[1])

\* the start positions of the sub-paths of a path, in the order of the path
PathStarts(d) ==
    LET moves == SelectSeq(d, LAMBDA c : c[1] = "M")
    IN [k \in 1..Len(moves) |-> <<moves[k][2], moves[k][3]>>]

\* C11: determinism. On a RectangleSet the output of a merge strategy depends
\* on the set only: Block-Merge and Path-Merge run on the same rectangles
\* presented in the opposite order yield the same blocks and the same
\* sub-paths in the same order. Every block of Block-Merge starts at the
\* top-most, then left-most cell that no earlier block covers (no block is
\* emitted once every cell is covered), and the sub-paths of Path-Merge
\* follow one another top to bottom, left to right.
C11_Determinism ==
    (pc = "done" /\ Len(blackRects) > 0 /\ RectangleSet(blackRects)) =>
        /\ strategy = "rowOptimize" =>
              /\ mergeIntoBlocks(Reverse(blackRects)) = mergedRects
              /\ \A k \in DOMAIN mergedRects :
                    LET unused == Unused(blackRects, mergedRects, k - 1)
                    IN /\ unused # {}
                       /\ <<mergedRects[k].x, mergedRects[k].y>> = TopLeft(unused)
              /\ Unused(blackRects, mergedRects, Len(mergedRects)) = {}
        /\ (strategy = "optimize" /\ pathData # Null) =>
              /\ PathOf(Reverse(blackRects)) = pathData
              /\ \A k \in DOMAIN PathStarts(pathData[1]) :
                    PathStarts(pathData[1])[k]
                        = TopLeft({PathStarts(pathData[1])[j] :
                                      j \in k..Len(PathStarts(pathData[1]))})

\* Block-Merge has emitted at least two blocks for a set whose top-most cell
\* is not in the left-most column, and whose rectangles were collected in an
\* order that is not the order of the blocks
C11_Witness ==
    /\ pc = "done" /\ strategy = "rowOptimize" /\ RectangleSet(blackRects)
    /\ Len(mergedRects) >= 2
    /\ mergedRects[1].x > mergedRects[2].x
    /\ <<blackRects[1].x, blackRects[1].y>> # <<mergedRects[1].x, mergedRects[1].y>>

\* C12: the shape of a Raster-Embed document. Whenever the hybrid strategy
\* has run with a background that is not transparent (the default), the
\* document holds exactly two elements, one background rectangle that covers
\* the canvas and one image, and the document and the image are as wide and
\* as high as the canvas (the size rounded to a multiple of 10), whatever
\* the resolution of the raster is.
C12_RasterEmbedShape ==
    (pc = "done" /\ strategy = "hybrid" /\ ~call.transparent) =>
        LET size == roundToNearest(call.size, 10)
            elems == currentSVG.elems
        IN /\ Len(elems) = 2
           /\ elems[1].tag = "rect" /\ elems[1].pct
           /\ elems[1].width = 100 /\ elems[1].height = 100
           /\ elems[1].fill = call.backgroundColor
           /\ elems[2].tag = "image"
           /\ elems[2].x = 0 /\ elems[2].y = 0
           /\ elems[2].width = size /\ elems[2].height = size
           /\ currentSVG.width = size /\ currentSVG.height = size

\* a hybrid document at the default options whose raster was asked for at a
\* resolution other than the default one
C12_Witness ==
    /\ pc = "done" /\ strategy = "hybrid" /\ ~call.transparent
    /\ call.size = DefaultSize
    /\ call.backgroundColor = White
    /\ call.pngResolution # PngResolution
    /\ currentSVG.elems[2].href.resolution = call.pngResolution

\* C13: the fallback of the encoder. In every request of the app that has
\* come to its end, the encoder was called with hints first; it was called
\* once more, without hints, exactly when the call with hints failed; the
\* request failed if and only if both calls fail for its payload; and when
\* only the call with hints fails, the matrix the request used, for the
\* canvas and for the document, is the one the call without hints returned.
C13_EncoderFallback ==
    (pc = "done" /\ call.api = "app") =>
        LET enc == requestData.enc
        IN /\ Len(attempts) >= 1
           /\ attempts[1].hints
           /\ attempts[1].ok <=> enc.hinted # Null
           /\ enc.hinted # Null => Len(attempts) = 1 /\ matrix = enc.hinted[1]
           /\ enc.hinted = Null =>
                 /\ Len(attempts) = 2
                 /\ ~attempts[2].hints
                 /\ attempts[2].ok <=> enc.plain # Null
           /\ failure = "encoder" <=> (enc.hinted = Null /\ enc.plain = Null)
           /\ (enc.hinted = Null /\ enc.plain # Null) =>
                 /\ failure = "none"
                 /\ matrix = enc.plain[1]
                 /\ currentCanvas.matrix = enc.plain[1]

\* a request whose call with hints failed and that has stored the canvas and
\* the document of the matrix of the call without hints
C13_Witness ==
    /\ pc = "done" /\ call.api = "app" /\ failure = "none"
    /\ requestData.enc.hinted = Null
    /\ Len(attempts) = 2
    /\ matrix = LightModule
    /\ currentCanvas.matrix = LightModule
    /\ currentSVG # NullDoc

\* the matrix the encoder hands to a request, Null when both calls throw
Encoded(enc) == IF enc.hinted # Null THEN enc.hinted ELSE enc.plain

\* C14: matrices that are not square are rejected. Whenever the encoder has
\* returned, for the request that has come to its end, a matrix whose width
\* differs from its height, the request has failed with InvalidMatrixError
\* and has produced no rectangles, no canvas and no document.
C14_NonSquareRejected ==
    (/\ pc = "done" /\ call.api = "app"
     /\ Encoded(requestData.enc) # Null
     /\ Encoded(requestData.enc)[1].n # Encoded(requestData.enc)[1].height) =>
        /\ failure = "InvalidMatrixError"
        /\ basicSVG = NullDoc
        /\ svgResult = NoResult
        /\ currentCanvas.matrix # Encoded(requestData.enc)[1]

\* C15 (as amended): the merge strategies never raise. optimizeSVG and
\* optimizeSVGRows return the input unchanged when the string does not parse
\* or an error is raised inside, when the document has no rect element and,
\* optimizeSVG only, when it finds no near-black rectangle within the canvas;
\* in every other case (zero dark modules for optimizeSVGRows and a single
\* dark module included) they return the document they have rebuilt, the
\* background and the path or the background and the merged blocks, whether
\* or not it has fewer elements than the input.
C15_FallbackCases ==
    (pc = "done" /\ strategy \in {"rowOptimize", "optimize"}) =>
        LET out == svgResult.value
            unparsed == ParseError(basicSVG)
            noRects == Len(RectsOf(basicSVG)) = 0
        IN /\ failure # "optimizer"
           /\ currentSVG = out
           /\ strategy = "optimize" =>
                 IF unparsed \/ noRects \/ Len(blackRects) = 0
                 THEN out = basicSVG
                 ELSE /\ pathData # Null
                      /\ out.width = basicSVG.width /\ out.height = basicSVG.height
                      /\ out.elems = <<FullRectElem(White), PathElem(pathData[1])>>
           /\ strategy = "rowOptimize" =>
                 IF unparsed \/ noRects
                 THEN out = basicSVG
                 ELSE /\ out.width = basicSVG.width /\ out.height = basicSVG.height
                      /\ Len(out.elems) = 1 + Len(mergedRects)
                      /\ out.elems[1].tag = "rect"
                      /\ \A k \in DOMAIN mergedRects :
                            out.elems[k + 1]
                               = RectElem(mergedRects[k].x, mergedRects[k].y,
                                          mergedRects[k].width, mergedRects[k].height,
                                          mergedRects[k].fill)

\* optimizeSVGRows was given a string that does not parse and has returned it
C15_Witness ==
    /\ pc = "done" /\ strategy = "rowOptimize"
    /\ ParseError(basicSVG)
    /\ failure = "none"
    /\ svgResult.value = basicSVG
    /\ currentSVG = MalformedDoc

\* C15 (as stated): the merge strategies never raise, and whenever they fail
\* inside or cannot improve on the input (the document they would return has
\* no fewer elements than the input) they return the input unchanged.
C15_UnchangedUnlessImproved ==
    (pc = "done" /\ strategy \in {"rowOptimize", "optimize"}) =>
        /\ failure # "optimizer"
        /\ (\/ ParseError(basicSVG)
            \/ Len(svgResult.value.elems) >= Len(basicSVG.elems))
              => svgResult.value = basicSVG

\* C16: the canvas size is normalized before it is used. The size field
\* holds a multiple of 10 at every moment, so in every request of the app the
\* size the strategy is chosen by is a multiple of 10 (the comparison with
\* 500 gives what it gives for the rounded size), the canvas and the document
\* of a request that has succeeded are as wide and as high as that size, and
\* the size shown to the user is that size.
C16_SizeNormalized ==
    /\ sizeInput % 10 = 0
    /\ reported % 10 = 0
    /\ (call.api = "app" /\ pc # "idle") =>
          /\ call.size % 10 = 0
          /\ call.size = roundToNearest(call.size, 10)
          /\ call.hybrid <=>
                (call.L > HybridLength \/ roundToNearest(call.size, 10) > HybridSize)
          /\ (pc = "done" /\ failure = "none") =>
                /\ currentCanvas.width = call.size
                /\ currentCanvas.height = call.size
                /\ currentSVG.width = call.size
                /\ currentSVG.height = call.size
                /\ reported = call.size

\* 504 was typed into the size field: the request was served at size 500,
\* and not by the hybrid strategy
C16_Witness ==
    /\ pc = "done" /\ call.api = "app" /\ failure = "none"
    /\ sizeInput = HybridSize
    /\ call.size = HybridSize
    /\ strategy = "optimize"
    /\ currentCanvas.width = HybridSize
    /\ reported = HybridSize

\* a step of a request that fails: its start (the click that suspends a
\* request for whose payload both calls of the encoder throw), or its end
\* (the request resumes and catches the error)
FailingRequestStep ==
    \/ /\ Len(timers') = Len(timers) + 1
       /\ Encoded(timers'[Len(timers')].data.enc) = Null
    \/ /\ Len(timers') = Len(timers) - 1
       /\ failure' = "encoder"

\* C17: failures leave no partial state. No step of a request that fails
\* changes lastGeneratedData, the stored canvas or the stored document: they
\* are after the request what they were before it.
C17_NoPartialState ==
    [][FailingRequestStep =>
          /\ lastGeneratedData' = lastGeneratedData
          /\ currentCanvas' = currentCanvas
          /\ currentSVG' = currentSVG]_vars

C19_RasterEmbedOrdering ==
    /\ storedTask # "pending"
    /\ downloaded # "pending"
    /\ (pc = "done" /\ strategy = "hybrid") =>
           /\ storedTask = "fulfilled"
           /\ currentSVG = svgResult.value
           /\ Len(currentSVG.elems) > 0
           /\ currentSVG.elems[Len(currentSVG.elems)].tag = "image"

\* the document of a Raster-Embed request has been downloaded
C19_Witness ==
    /\ pc = "done"
    /\ call.api = "app"
    /\ strategy = "hybrid"
    /\ storedTask = "fulfilled"
    /\ downloaded = "fulfilled"

-----------------------------------------------------------------------------
(* Growth of a block *)

\* the run of cells of S that starts at <<x, y>> and goes right
RECURSIVE AvailableRun(_, _, _)
AvailableRun(S, x, y) ==
    IF <<x, y>> \in S THEN 1 + AvailableRun(S, x + 1, y) ELSE 0

\* C20: the block width rule. The first block of Block-Merge, grown from the
\* top-left cell of a grid with no used cell, goes on downward as long as the
\* next row offers a run at its left edge, however short (the row below the
\* block offers none), and is as wide as the shortest run of its rows.
C20_BlockWidthRule ==
    (/\ pc = "done" /\ strategy = "rowOptimize" /\ RectangleSet(blackRects)
     /\ Len(mergedRects) > 0) =>
        LET cells == FilledBy(blackRects)
            b == mergedRects[1]
            x0 == b.x \div ModuleSide
            y0 == b.y \div ModuleSide
            W == b.width \div ModuleSide
            H == b.height \div ModuleSide
        IN /\ <<x0, y0 + H>> \notin cells
           /\ \A y \in y0..(y0 + H - 1) : AvailableRun(cells, x0, y) >= W
           /\ \E y \in y0..(y0 + H - 1) : AvailableRun(cells, x0, y) = W

-----------------------------------------------------------------------------
(* Order of the rasterizer *)

\* the module rectangles of a document createSVGString made for the call
\* being served: its elements after the background, if it has one
ModulesOf(doc) ==
    IF call.transparent \/ Len(doc.elems) = 0 THEN doc.elems ELSE Tail(doc.elems)

\* a comes before b from top to bottom and, within a row, from left to right
RowMajorBefore(a, b) == a.y < b.y \/ (a.y = b.y /\ a.x < b.x)

\* C21: rasterizer ordering. The module rectangles createSVGString has
\* emitted follow one another top to bottom and, within a row, left to
\* right, for every matrix.
C21_RowMajorOrder ==
    (pc = "done" /\ call.api \in {"app", "generateSVG"} /\ basicSVG # NullDoc) =>
        LET modules == ModulesOf(basicSVG)
        IN \A k \in 1..(Len(modules) - 1) :
              RowMajorBefore(modules[k], modules[k + 1])

-----------------------------------------------------------------------------
(* The sub-paths of Path-Merge *)

\* the rectangle the k-th group of five commands of the path d traces
TracedRect(d, k) ==
    [x |-> d[5 * k - 4][2], y |-> d[5 * k - 4][3],
     width |-> d[5 * k - 3][2], height |-> d[5 * k - 2][2]]

\* the k-th group of five commands of d is a closed sub-path: move to the
\* top-left corner, right by the width, down by the height, left by the
\* width, close
ClosedSubPath(d, k) ==
    /\ d[5 * k - 4][1] = "M"
    /\ d[5 * k - 3][1] = "h"
    /\ d[5 * k - 2][1] = "v"
    /\ d[5 * k - 1] = <<"h", 0 - d[5 * k - 3][2]>>
    /\ d[5 * k] = <<"z">>

\* C22: Path-Merge never coalesces. Whenever optimizeSVG has collected n
\* dark rectangles, the path is made of exactly n closed sub-paths of five
\* commands, which trace the collected rectangles one for one (each
\* rectangle as often as it was collected), from top to bottom and, within a
\* row, from left to right.
C22_OneSubPathPerRect ==
    (pc = "done" /\ strategy = "optimize" /\ Len(blackRects) > 0) =>
        /\ pathData # Null
        /\ LET d == pathData[1]
               n == Len(blackRects)
           IN /\ Len(d) = 5 * n
              /\ \A k \in 1..n : ClosedSubPath(d, k)
              /\ \A k \in 1..n :
                    Cardinality({j \in 1..n : TracedRect(d, j) = TracedRect(d, k)})
                        = Cardinality({j \in 1..n : blackRects[j] = TracedRect(d, k)})
              /\ \A k \in 1..(n - 1) :
                    ~RowMajorBefore(TracedRect(d, k + 1), TracedRect(d, k))

\* three modules, two of them horizontally adjacent and the first one
\* collected below the second, have given three sub-paths
C22_Witness ==
    /\ pc = "done" /\ strategy = "optimize" /\ RectangleSet(blackRects)
    /\ pathData # Null
    /\ Len(blackRects) = 3
    /\ Len(pathData[1]) = 15
    /\ blackRects[1].y > blackRects[2].y
    /\ \E j, k \in 1..3 :
          /\ blackRects[j].y = blackRects[k].y
          /\ blackRects[j].x + blackRects[j].width = blackRects[k].x

-----------------------------------------------------------------------------
(* Input of Block-Merge *)

\* the rectangles do not all have the same width and height
Heterogeneous(rects) ==
    \E j, k \in DOMAIN rects :
        rects[j].width # rects[k].width \/ rects[j].height # rects[k].height

\* C23: heterogeneous input is rejected. Whenever the rectangles
\* optimizeSVGRows has collected do not all have the same width and height,
\* the strategy has reported a failure and has emitted no block.
C23_HeterogeneousRejected ==
    (pc = "done" /\ strategy = "rowOptimize" /\ Heterogeneous(blackRects)) =>
        /\ failure = "optimizer"
        /\ mergedRects = <<>>

-----------------------------------------------------------------------------
(* The request that wins *)

-----------------------------------------------------------------------------
(* The loading state *)

\* some request has passed showLoading and has not come to its end: it is
\* suspended in its wait, or it awaits the hybrid task
InFlight == Len(timers) > 0 \/ (call.api = "app" /\ pc \in {"pending", "settled"})

\* C25: loading indicator. The loading state of the generate button is shown
\* whenever some request is in flight.
C25_LoadingWhileInFlight == InFlight => loading

-----------------------------------------------------------------------------
(* Rejected input *)

\* a step that leaves the validation error on show and neither suspends nor
\* resumes a request: the request whose input fails validation is such a step
ValidationErrorStep ==
    errorMessage' = "validation" /\ timers' = timers /\ pc' = pc

-----------------------------------------------------------------------------
(* The encoder library *)

\* C27: no artifact without the encoder. While zxingLoaded is false no
\* canvas and no document is stored, no encoder call has been made, and every
\* request or call that has come to its end was refused with the 'not
\* loaded' error.
C27_NoArtifactUnlessLoaded ==
    ~zxingLoaded =>
        /\ currentCanvas = NoCanvas
        /\ currentSVG = NullDoc
        /\ displayed = NoCanvas
        /\ attempts = <<>>
        /\ pc \in {"idle", "done"}
        /\ pc = "done" =>
              /\ failure = "notLoaded"
              /\ svgResult = NoResult
              /\ matrix = NoMatrix

\* the library has become available, the timeout has stopped the poll, and
\* a request for a payload the encoder accepts has been refused
C27_Witness ==
    /\ ~zxingLoaded
    /\ zxingAvailable
    /\ loadTimeout = "fired"
    /\ pc = "done"
    /\ call.api = "app"
    /\ failure = "notLoaded"
    /\ errorMessage = "generation"
    /\ Encoded(requestData.enc) # Null


\* C28 as stated: library detection is live. Whenever the library is
\* available and zxingLoaded is not set yet, the poll that will set it is
\* still running.
C28_DetectionLive ==
    (zxingAvailable /\ ~zxingLoaded) => checkInterval = "set"

\* C28: library detection is live until the timeout. While the timeout has
\* not fired and the flag is not set the poll is running; the poll is
\* cleared by the tick that finds the library, which sets zxingLoaded, or by
\* the timeout; zxingLoaded stays true once set, and no request that resumes
\* from then on is refused; once the timeout has fired with the flag not
\* set, the poll is cleared and the flag stays false, whether or not the
\* library becomes available.
C28_DetectionUntilTimeout ==
    /\ []((~zxingLoaded /\ loadTimeout = "set") => checkInterval = "set")
    /\ []((~zxingLoaded /\ loadTimeout = "fired") => checkInterval = "cleared")
    /\ [](zxingLoaded => zxingAvailable)
    /\ [][/\ zxingLoaded => zxingLoaded'
          /\ (checkInterval = "set" /\ checkInterval' # "set"
              /\ loadTimeout' = loadTimeout) => zxingLoaded'
          /\ (~zxingLoaded /\ loadTimeout = "fired") => ~zxingLoaded'
          /\ (zxingLoaded /\ Len(timers') < Len(timers)) =>
                failure' # "notLoaded"]_vars

\* the library loaded late, a tick of the poll found it before the timeout,
\* and a request that resumed afterwards was served
C28_Witness ==
    /\ zxingLoaded
    /\ checkInterval = "cleared"
    /\ loadTimeout = "set"
    /\ pc = "done"
    /\ call.api = "app"
    /\ failure = "none"
    /\ currentCanvas # NoCanvas


(***************************************************************************)
(* C29: order independence of Block-Merge and Path-Merge                   *)
(***************************************************************************)

\* the list s read in the order p, a permutation of its indices
Permuted(s, p) == [i \in 1..Len(s) |-> s[p[i]]]

IndexPermutations(n) ==
  {p \in [1..n -> 1..n] : \A i, j \in 1..n : p[i] = p[j] => i = j}

\* s with the elements at i and i + 1 exchanged
SwapAt(s, i) ==
  [k \in 1..Len(s) |-> IF k = i THEN s[i + 1] ELSE IF k = i + 1 THEN s[i] ELSE s[k]]

\* s started at its element i
RotateAt(s, i) ==
  [k \in 1..Len(s) |-> s[((k + i - 2) % Len(s)) + 1]]

Rearranged(s) ==
  IF Len(s) <= MaxPermuted
  THEN {Permuted(s, p) : p \in IndexPermutations(Len(s))}
  ELSE {SwapAt(s, i) : i \in 1..(Len(s) - 1)}
         \cup {RotateAt(s, i) : i \in 1..Len(s)}
         \cup {Reverse(s), SortRects(s)}

\* C29: listing the same uniformly sized RectangleSet in another order (the
\* row-major order instead of the column-major order of createSVGString, or
\* any other permutation) gives the same blocks from Block-Merge and the same
\* sub-paths from Path-Merge, in the same order
C29_OrderIndependence ==
  (pc = "done" /\ failure = "none" /\ Len(blackRects) > 0
     /\ RectangleSet(blackRects))
    => \A other \in Rearranged(blackRects) :
         /\ strategy = "rowOptimize" => mergeIntoBlocks(other) = mergedRects
         /\ (strategy = "optimize" /\ pathData # Null)
              => PathOf(other) = pathData

\* a finished call whose rectangles were collected in an order that is not
\* the row-major one, with several rectangles sharing a row
C29_Witness ==
  /\ pc = "done"
  /\ failure = "none"
  /\ RectangleSet(blackRects)
  /\ Len(blackRects) >= 3
  /\ SortRects(blackRects) # blackRects
  /\ strategy \in {"rowOptimize", "optimize"}
  /\ \E i, j \in 1..Len(blackRects) : i # j /\ blackRects[i].y = blackRects[j].y


(***************************************************************************)
(* C30: the module size estimate of the grid index                         *)
(***************************************************************************)

\* the smallest width and height found among the rectangles
MinObservedSize(rects) ==
  Min(SeqMin([k \in 1..Len(rects) |-> rects[k].width]),
      SeqMin([k \in 1..Len(rects) |-> rects[k].height]))

\* the grid cell the claim assigns to a rectangle
CellOf(rect, gridData) ==
  <<Round(rect.x - gridData.minX, gridData.moduleSize),
    Round(rect.y - gridData.minY, gridData.moduleSize)>>

\* C30: the grid index of Block-Merge takes as module size the minimum width
\* and height over all input rectangles and maps each rectangle to the cell
\* (round((x - minX)/moduleSize), round((y - minY)/moduleSize)), and no two
\* distinct input rectangles land on the same cell
C30_ModuleSizeEstimate ==
  (pc = "done" /\ strategy = "rowOptimize" /\ Len(blackRects) > 0)
    => LET gridData == createGridFromRectangles(blackRects)
       IN /\ gridData.moduleSize = MinObservedSize(blackRects)
          /\ \A k \in DOMAIN blackRects :
                CellOf(blackRects[k], gridData) \in DOMAIN gridData.grid
          /\ \A i, j \in DOMAIN blackRects :
                blackRects[i] # blackRects[j]
                  => CellOf(blackRects[i], gridData) # CellOf(blackRects[j], gridData)

=============================================================================
